---- MODULE Spec2Model ----
(***************************************************************************)
(* Model of the chat session of src/app.py (server, lines 709-871):       *)
(* the two client handles, the reactive values chat_history and           *)
(* is_processing, the handlers handle_send_message and handle_clear_chat, *)
(* and the pipeline get_ai_response -> detect_language ->                 *)
(* chat.completions.create -> translate_text.                             *)
(*                                                                         *)
(* A text is a sequence of characters.  A fixed literal of the source is  *)
(* a one-element sequence whose element is the literal: no operation of   *)
(* the program looks inside these literals.  Language names, user input   *)
(* and remote replies are spelled character by character, because strip,  *)
(* split and lower look at their characters.                              *)
(*                                                                         *)
(* handle_send_message is a synchronous handler; it is cut where it       *)
(* blocks on a remote call.  pc is its position: "idle" (not running) or  *)
(* the remote call it is waiting for.                                      *)
(***************************************************************************)
EXTENDS Integers, Sequences, FiniteSets, TLC

VARIABLES
    HF_TOKEN,         \* os.getenv("HF_TOKEN") is set (line 13)
    GOOGLE_API_KEY,   \* os.getenv("GOOGLE_API_KEY") is set (line 24)
    hf_client,        \* TRUE: handle present, FALSE: None (lines 711-716)
    google_client,    \* TRUE: handle present, FALSE: None (lines 718-723)
    chat_history,     \* reactive.Value: sequence of turns (line 726)
    is_processing,    \* reactive.Value: BOOLEAN (line 727)
    user_input,       \* input.user_input() as read by the running/last submit
    pc,               \* position of handle_send_message
    user_message,     \* local of handle_send_message (line 821)
    current_history,  \* local of handle_send_message (line 832)
    updated_history,  \* local of handle_send_message (line 836)
    user_lang,        \* local of get_ai_response (line 778)
    response_content, \* local of get_ai_response (lines 780-810)
    ai_response,      \* local of handle_send_message (line 849)
    calls,            \* remote calls of the running/last submit, with outcomes
    last_log          \* which handler exit printed last

vars == <<HF_TOKEN, GOOGLE_API_KEY, hf_client, google_client, chat_history, is_processing,
          user_input, pc, user_message, current_history, updated_history,
          user_lang, response_content, ai_response, calls, last_log>>

(***************************************************************************)
(* Bounds.                                                                 *)
(***************************************************************************)
\* A submit is taken only while the transcript has room for its two turns.
MaxTurns == 4

\* datetime.now().strftime("%H:%M:%S")
Clock == {"23:59:59", "00:00:00"}

(***************************************************************************)
(* Characters and the string methods the program uses.                    *)
(***************************************************************************)
NL == "\n"
SP == " "
Whitespace == {SP, NL, "\t"}

UpperLetters == <<"A","B","C","D","E","F","G","H","I","J","K","L","M",
                  "N","O","P","Q","R","S","T","U","V","W","X","Y","Z">>
LowerLetters == <<"a","b","c","d","e","f","g","h","i","j","k","l","m",
                  "n","o","p","q","r","s","t","u","v","w","x","y","z">>

LowerChar(c) ==
    IF \E i \in 1..26 : UpperLetters[i] = c
    THEN LowerLetters[CHOOSE i \in 1..26 : UpperLetters[i] = c]
    ELSE c

\* str.lower()
Lower(s) == [i \in 1..Len(s) |-> LowerChar(s[i])]

SetMin(S) == CHOOSE x \in S : \A y \in S : x <= y
SetMax(S) == CHOOSE x \in S : \A y \in S : x >= y

\* no strip at all
Strip_Missing(s) == s

\* str.strip()
Strip(s) ==
    LET keep == {i \in 1..Len(s) : s[i] \notin Whitespace}
    IN  IF keep = {} THEN <<>> ELSE SubSeq(s, SetMin(keep), SetMax(keep))

\* s.split('\n')[0]
FirstLine(s) ==
    LET nl == {i \in 1..Len(s) : s[i] = NL}
    IN  IF nl = {} THEN s ELSE SubSeq(s, 1, SetMin(nl) - 1)

(***************************************************************************)
(* String literals of the source.                                          *)
(***************************************************************************)
English    == <<"E","n","g","l","i","s","h">>
english    == <<"e","n","g","l","i","s","h">>

MsgClientNotInitialized ==
    <<"Error: AI client not initialized. Please check your API key configuration.">>
MsgEmptyResponse ==
    <<"The AI model returned an empty response. Please try rephrasing your question or try again later.">>
MsgStopIteration ==
    <<"The AI model did not generate a response. This might be a temporary issue with the service. Please try again.">>
MsgApiError ==
    <<"An error occurred while communicating with the AI. Please try again later.">>
TranslationNoClientPrefix ==
    <<"(Translation failed: Google AI client not initialized) ">>

\* line 767 without the original text
TranslationFailedText_NoText(text, target_language) ==
    <<"(Translation to ">> \o target_language
        \o <<" failed, showing original text) ">>

\* f"(Translation to {target_language} failed, showing original text) {text}"
TranslationFailedText(text, target_language) ==
    <<"(Translation to ">> \o target_language
        \o <<" failed, showing original text) ">> \o text

DetectPrompt(text) ==
    <<"What language is the following text written in? Respond with only the language name (e.g., 'Indonesian', 'English', 'Spanish').\n\nText: \"">>
        \o text \o <<"\"">>

TranslatePrompt(text, target_language) ==
    <<"Translate the following English text to ">> \o target_language
        \o <<". Only provide the translation, nothing else:\n\n">> \o text

CompletionPrompt(text) ==
    <<"system: You are Dokter Arki, a helpful medical AI assistant. ...", "user: ">> \o text

(***************************************************************************)
(* Inputs: what the user may have typed, and what the providers may       *)
(* answer.                                                                 *)
(***************************************************************************)
UserInputs ==
    { <<>>, <<NL, SP>>, <<SP,"h","i",NL>>, <<"y","a",SP,"?">> }

ProviderErrors == {"ConnectionError", "HTTP 500"}

Pending == [kind |-> "pending", text |-> <<>>]
Text(t) == [kind |-> "text", text |-> t]
Raised(e) == [kind |-> "error", text |-> <<e>>]

\* response.text of the detection call, or the error it raises
DetectOutcomes ==
    { Text(English),
      Text(<<SP>> \o english \o <<NL>>),
      Text(<<"M","a","l","a","y", NL, "I","t">>),
      Text(English \o <<SP, NL, "o","k">>) }
    \cup { Raised(e) : e \in ProviderErrors }

\* completion.choices of the completion call (the first candidate's content), or
\* the error it raises
CompletionOutcomes ==
    { Text(<<"R","e","s","t">>), Text(<<>>),
      [kind |-> "no_choices", text |-> <<>>],
      [kind |-> "stop_iteration", text |-> <<>>] }
    \cup { Raised(e) : e \in ProviderErrors }

\* response.text of the translation call, or the error it raises
TranslateOutcomes ==
    { Text(<<"I","s","t","i","r","a","h","a","t">>), Text(<<>>) }
    \cup { Raised(e) : e \in ProviderErrors }

Call(api, prompt) == [api |-> api, prompt |-> prompt, outcome |-> Pending]

\* the last call of the log, with its outcome filled in
Resolve(log, outcome) ==
    [log EXCEPT ![Len(log)] = [@ EXCEPT !.outcome = outcome]]

Turn(type, content, timestamp) ==
    [type |-> type, content |-> content, timestamp |-> timestamp]

(***************************************************************************)
(* detect_language (lines 729-747).                                        *)
(***************************************************************************)
\* lines 745-747 returning a placeholder instead of the default
detect_language_result_unknown(outcome) ==
    IF outcome.kind = "error"
    THEN <<"U","n","k","n","o","w","n">>
    ELSE FirstLine(Strip(outcome.text))

\* the detection call and the completion call sent together
detect_language_call_fanout(text) ==
    <<Call("detect", DetectPrompt(text)), Call("complete", CompletionPrompt(text))>>

\* lines 735-738: the remote call of detect_language, the first of a run
detect_language_call(text) == <<Call("detect", DetectPrompt(text))>>

\* lines 739-747: what detect_language returns once the remote call resolved
detect_language_result(outcome) ==
    IF outcome.kind = "error"
    THEN English
    ELSE LET detected_lang == Strip(outcome.text)
         IN  IF \E i \in 1..Len(detected_lang) : detected_lang[i] = NL
             THEN FirstLine(detected_lang)
             ELSE detected_lang

(***************************************************************************)
(* The completion step of get_ai_response (lines 780-810).                 *)
(***************************************************************************)
\* lines 796-810 with zero candidates falling into the generic failure
completion_result_no_empty_case(outcome) ==
    CASE outcome.kind = "text"           -> outcome.text
      [] outcome.kind = "stop_iteration" -> MsgStopIteration
      [] OTHER                           -> MsgApiError

completion_result(outcome) ==
    CASE outcome.kind = "text"           -> outcome.text
      [] outcome.kind = "no_choices"     -> MsgEmptyResponse
      [] outcome.kind = "stop_iteration" -> MsgStopIteration
      [] OTHER                           -> MsgApiError

(***************************************************************************)
(* translate_text (lines 749-767).                                         *)
(***************************************************************************)
\* line 755 without .lower()
translate_text_local_case_sensitive(text, target_language, client) ==
    IF ~client
    THEN [remote |-> FALSE, text |-> TranslationNoClientPrefix \o text]
    ELSE IF target_language = english
         THEN [remote |-> FALSE, text |-> text]
         ELSE [remote |-> TRUE, text |-> TranslatePrompt(text, target_language)]

\* lines 751-757: the part of translate_text before the remote call.
\* remote = TRUE: the remote call is made; otherwise text is the return value.
translate_text_local(text, target_language, client) ==
    IF ~client
    THEN [remote |-> FALSE, text |-> TranslationNoClientPrefix \o text]
    ELSE IF Lower(target_language) = english
         THEN [remote |-> FALSE, text |-> text]
         ELSE [remote |-> TRUE, text |-> TranslatePrompt(text, target_language)]

\* line 813, with an error text returned untranslated
get_ai_response_translate_skip(content, lang, client) ==
    IF content \in {MsgApiError, MsgStopIteration}
    THEN [remote |-> FALSE, text |-> content]
    ELSE translate_text_local(content, lang, client)

\* line 813: get_ai_response hands response_content to translate_text
get_ai_response_translate(content, lang, client) ==
    translate_text_local(content, lang, client)

\* line 767 showing the exception instead of the fixed annotation
translate_text_result_leaks(text, target_language, outcome) ==
    IF outcome.kind = "error"
    THEN <<"(Translation failed: ">> \o outcome.text \o <<") ">> \o text
    ELSE outcome.text

\* lines 760-767: what translate_text returns once the remote call resolved
translate_text_result(text, target_language, outcome) ==
    IF outcome.kind = "error"
    THEN TranslationFailedText(text, target_language)
    ELSE outcome.text

(***************************************************************************)
(* handle_send_message (lines 815-865).                                    *)
(***************************************************************************)
\* lines 852-856 built on current_history instead of updated_history
final_history_from_current(updated, ai_text, timestamp) ==
    Append(SubSeq(updated, 1, Len(updated) - 1), Turn("ai", ai_text, timestamp))

\* lines 852-856
final_history(updated, ai_text, timestamp) ==
    Append(updated, Turn("ai", ai_text, timestamp))

\* lines 849-861: get_ai_response returned ai_text
Return(updated, ai_text, timestamp) ==
    /\ ai_response' = ai_text
    /\ chat_history' = final_history(updated, ai_text, timestamp)
    /\ is_processing' = FALSE
    /\ last_log' = "completed"
    /\ pc' = "idle"

\* lines 842-849 without line 846
Block_NoFlag(updated, at) ==
    /\ chat_history' = updated
    /\ is_processing' = is_processing
    /\ last_log' = "added_user"
    /\ pc' = at
    /\ ai_response' = <<>>

\* lines 842-846, then blocked in a remote call of get_ai_response
Block(updated, at) ==
    /\ chat_history' = updated
    /\ is_processing' = TRUE
    /\ last_log' = "added_user"
    /\ pc' = at
    /\ ai_response' = <<>>

\* The locals of handle_send_message and get_ai_response are dead once the
\* handler has returned; they keep their last values until a handler runs again.
NoLocals ==
    /\ user_message' = <<>>
    /\ current_history' = <<>>
    /\ updated_history' = <<>>
    /\ user_lang' = <<>>
    /\ response_content' = <<>>
    /\ ai_response' = <<>>
    /\ calls' = <<>>

\* lines 12-20 without the check of lines 14-15
initialize_hf_client_unchecked(api_key) == "InferenceClient"

\* lines 12-20: what initialize_hf_client returns or raises
initialize_hf_client(api_key) ==
    IF ~api_key THEN "ValueError" ELSE "InferenceClient"

\* lines 23-29: what initialize_google_client returns or raises
initialize_google_client(api_key) ==
    IF ~api_key THEN "ValueError" ELSE "GenerativeModel"

\* lines 711-716 and 718-723: the handle, or None when the initializer raised
ClientOrNone(result) == result # "ValueError"

Init ==
    /\ HF_TOKEN \in BOOLEAN
    /\ GOOGLE_API_KEY \in BOOLEAN
    /\ hf_client = ClientOrNone(initialize_hf_client(HF_TOKEN))
    /\ google_client = ClientOrNone(initialize_google_client(GOOGLE_API_KEY))
    /\ chat_history = <<>>
    /\ is_processing = FALSE
    /\ user_input = <<>>
    /\ pc = "idle"
    /\ user_message = <<>>
    /\ current_history = <<>>
    /\ updated_history = <<>>
    /\ user_lang = <<>>
    /\ response_content = <<>>
    /\ ai_response = <<>>
    /\ calls = <<>>
    /\ last_log = "session_start"

\* The send button is clicked with `raw` in the text area.  Runs lines 817-849
\* up to the first remote call; with no completion client, the whole handler.
handle_send_message(raw, timestamp, timestamp2) ==
    /\ pc = "idle"
    /\ Len(chat_history) + 2 <= MaxTurns
    /\ user_input' = raw
    /\ UNCHANGED <<HF_TOKEN, GOOGLE_API_KEY, hf_client, google_client>>
    /\ IF Strip(raw) = <<>>
       THEN \* lines 824-826
            /\ last_log' = "no_message"
            /\ NoLocals
            /\ UNCHANGED <<chat_history, is_processing, pc>>
       ELSE LET updated == Append(chat_history,
                                  Turn("user", Strip(raw), timestamp))
            IN  /\ user_message' = Strip(raw)
                /\ current_history' = chat_history
                /\ updated_history' = updated
                /\ response_content' = <<>>
                /\ IF ~hf_client
                   THEN \* lines 773-775
                        /\ user_lang' = <<>>
                        /\ calls' = <<>>
                        /\ Return(updated, MsgClientNotInitialized, timestamp2)
                   ELSE IF ~google_client
                        THEN \* lines 731-733, then lines 780-794
                             /\ user_lang' = English
                             /\ calls' = <<Call("complete",
                                               CompletionPrompt(Strip(raw)))>>
                             /\ Block(updated, "complete")
                        ELSE \* lines 735-738
                             /\ user_lang' = <<>>
                             /\ calls' = detect_language_call(Strip(raw))
                             /\ Block(updated, "detect")

\* client.generate_content of detect_language resolved: lines 739-747, then
\* lines 780-794 up to the completion call
DetectResolves(outcome) ==
    /\ pc = "detect"
    /\ user_lang' = detect_language_result(outcome)
    /\ calls' = Append(Resolve(calls, outcome),
                       Call("complete", CompletionPrompt(user_message)))
    /\ pc' = "complete"
    /\ UNCHANGED <<HF_TOKEN, GOOGLE_API_KEY, hf_client, google_client, chat_history, is_processing,
                   user_input, user_message, current_history,
                   updated_history, response_content, ai_response, last_log>>

\* hf_client.chat.completions.create resolved: lines 796-810, then translate_text
\* (line 813) up to its remote call, or to the end of the handler if it makes none
CompletionResolves(outcome, timestamp) ==
    /\ pc = "complete"
    /\ response_content' = completion_result(outcome)
    /\ LET t == get_ai_response_translate(completion_result(outcome),
                                          user_lang, google_client)
       IN  IF t.remote
           THEN /\ calls' = Append(Resolve(calls, outcome),
                                   Call("translate", t.text))
                /\ pc' = "translate"
                /\ UNCHANGED <<chat_history, is_processing, ai_response, last_log>>
           ELSE /\ calls' = Resolve(calls, outcome)
                /\ Return(updated_history, t.text, timestamp)
    /\ UNCHANGED <<HF_TOKEN, GOOGLE_API_KEY, hf_client, google_client, user_input,
                   user_message, current_history, updated_history, user_lang>>

\* lines 852-858 appending to chat_history.get() instead of updated_history
TranslateResolves_OnCurrent(outcome, timestamp) ==
    /\ pc = "translate"
    /\ calls' = Resolve(calls, outcome)
    /\ Return(chat_history,
              translate_text_result(response_content, user_lang, outcome),
              timestamp)
    /\ UNCHANGED <<HF_TOKEN, GOOGLE_API_KEY, hf_client, google_client,
                   user_input, user_message, current_history, updated_history,
                   user_lang, response_content>>

\* lines 760-767 with one more attempt after a failure
TranslateResolves_Retry(outcome, timestamp) ==
    /\ pc = "translate"
    /\ IF /\ outcome.kind = "error"
          /\ Cardinality({i \in 1..Len(calls) : calls[i].api = "translate"}) = 1
       THEN /\ calls' = Append(Resolve(calls, outcome),
                               Call("translate", calls[Len(calls)].prompt))
            /\ UNCHANGED <<chat_history, is_processing, ai_response, last_log, pc>>
       ELSE /\ calls' = Resolve(calls, outcome)
            /\ Return(updated_history,
                      translate_text_result(response_content, user_lang, outcome),
                      timestamp)
    /\ UNCHANGED <<HF_TOKEN, GOOGLE_API_KEY, hf_client, google_client, user_input,
                   user_message, current_history, updated_history, user_lang,
                   response_content>>

\* client.generate_content of translate_text resolved: lines 763-767, then
\* lines 849-861
TranslateResolves(outcome, timestamp) ==
    /\ pc = "translate"
    /\ calls' = Resolve(calls, outcome)
    /\ Return(updated_history,
              translate_text_result(response_content, user_lang, outcome),
              timestamp)
    /\ UNCHANGED <<HF_TOKEN, GOOGLE_API_KEY, hf_client, google_client, user_input,
                   user_message, current_history, updated_history, user_lang,
                   response_content>>

\* lines 863-865 without line 865
ExceptionEscapes_StaysBusy ==
    /\ pc # "idle"
    /\ last_log' = "exception"
    /\ pc' = "idle"
    /\ UNCHANGED <<HF_TOKEN, GOOGLE_API_KEY, hf_client, google_client, chat_history, is_processing,
                   user_input, user_message, current_history, updated_history,
                   user_lang, response_content, ai_response, calls>>

\* lines 863-865: an exception that get_ai_response does not handle (a print
\* outside its try blocks failing, lines 771, 735, 759; or inside an except
\* block, lines 746, 766, 806, 808) reaches the handler's except clause
ExceptionEscapes ==
    /\ pc # "idle"
    /\ is_processing' = FALSE
    /\ last_log' = "exception"
    /\ pc' = "idle"
    /\ UNCHANGED <<HF_TOKEN, GOOGLE_API_KEY, hf_client, google_client, chat_history,
                   user_input, user_message, current_history, updated_history,
                   user_lang, response_content, ai_response, calls>>

\* line 871 dropping only the last turn
handle_clear_chat_last_only ==
    /\ pc = "idle"
    /\ chat_history' = SubSeq(chat_history, 1, Len(chat_history) - 1)
    /\ last_log' = "cleared"
    /\ user_input' = <<>>
    /\ NoLocals
    /\ UNCHANGED <<HF_TOKEN, GOOGLE_API_KEY, hf_client, google_client, is_processing, pc>>

\* line 871 run while handle_send_message is waiting (a handler that yields)
handle_clear_chat_while_busy ==
    /\ chat_history' = <<>>
    /\ last_log' = "cleared"
    /\ UNCHANGED <<HF_TOKEN, GOOGLE_API_KEY, hf_client, google_client, is_processing, pc, user_input,
                   user_message, current_history, updated_history, user_lang,
                   response_content, ai_response, calls>>

(***************************************************************************)
(* handle_clear_chat (lines 867-871).  The handlers of a session run one   *)
(* at a time, so it runs only while handle_send_message is not running.    *)
(***************************************************************************)
handle_clear_chat ==
    /\ pc = "idle"
    /\ chat_history' = <<>>
    /\ last_log' = "cleared"
    /\ user_input' = <<>>
    /\ NoLocals
    /\ UNCHANGED <<HF_TOKEN, GOOGLE_API_KEY, hf_client, google_client, is_processing, pc>>

Submit == \E raw \in UserInputs : \E t1 \in Clock, t2 \in Clock :
              handle_send_message(raw, t1, t2)
Detected == \E o \in DetectOutcomes : DetectResolves(o)
Completed == \E o \in CompletionOutcomes : \E t \in Clock : CompletionResolves(o, t)
Translated == \E o \in TranslateOutcomes : \E t \in Clock : TranslateResolves(o, t)

Next ==
    \/ Submit
    \/ Detected
    \/ Completed
    \/ Translated
    \/ ExceptionEscapes
    \/ handle_clear_chat

Spec == Init /\ [][Next]_vars

\* The interference C22 supposes: handle_clear_chat (line 871) landing between
\* the user-turn append and the return of get_ai_response.  It is no step of
\* Spec, where the handlers of a session run one at a time.
clear_during_run ==
    /\ pc # "idle"
    /\ chat_history' = <<>>
    /\ last_log' = "cleared"
    /\ UNCHANGED <<HF_TOKEN, GOOGLE_API_KEY, hf_client, google_client,
                   is_processing, pc, user_input, user_message,
                   current_history, updated_history, user_lang,
                   response_content, ai_response, calls>>

OverlapNext == Next \/ clear_during_run

OverlapSpec == Init /\ [][OverlapNext]_vars

\* Every remote call that is awaited returns or raises (lines 738, 792, 762 are
\* blocking calls that come back unless the transport hangs).
FairSpec ==
    /\ Spec
    /\ WF_vars(Detected)
    /\ WF_vars(Completed)
    /\ WF_vars(Translated)

(***************************************************************************)
(* Helpers of the properties.                                              *)
(***************************************************************************)
Last(q) == q[Len(q)]

IsSubstring(a, b) ==
    \E i \in 0..(Len(b) - Len(a)) : SubSeq(b, i + 1, i + Len(a)) = a

CallsOf(api) == {i \in 1..Len(calls) : calls[i].api = api}

\* handle_send_message has run to line 861 and nothing ran after it
SubmitCompleted == pc = "idle" /\ last_log = "completed"

WhitespaceOnly(raw) == \A i \in 1..Len(raw) : raw[i] \in {" ", "\n", "\t"}

(***************************************************************************)
(* C1.  With the completion client absent and the language client         *)
(* present, a completed non-empty submit has made the detection call on   *)
(* the user message and the translation call on the 'client not           *)
(* initialized' string, and the assistant turn is the reply of that       *)
(* translation call.                                                       *)
(***************************************************************************)
C1_FallbackIsTranslated ==
    (SubmitCompleted /\ ~hf_client /\ google_client) =>
        /\ \E i \in CallsOf("detect") :
               calls[i].prompt = DetectPrompt(user_message)
        /\ \E j \in CallsOf("translate") :
               /\ calls[j].prompt =
                      TranslatePrompt(MsgClientNotInitialized, user_lang)
               /\ calls[j].outcome.kind = "text" =>
                      Last(chat_history).content = calls[j].outcome.text

(***************************************************************************)
(* C2.  Whenever translate_text has returned for a target language that   *)
(* is 'english' up to case, with the handle present or absent, it         *)
(* returned the text unchanged and made no remote call.                    *)
(***************************************************************************)
C2_EnglishTargetUnchanged ==
    (SubmitCompleted /\ hf_client /\ Lower(user_lang) = english) =>
        /\ ai_response = response_content
        /\ CallsOf("translate") = {}

(***************************************************************************)
(* C3.  Every completed submit of a non-empty message got a non-empty     *)
(* text from get_ai_response, whatever the clients and the outcomes of    *)
(* the remote calls were.                                                  *)
(***************************************************************************)
C3_RespondNonEmpty ==
    (SubmitCompleted /\ user_message # <<>>) =>
        /\ ai_response # <<>>
        /\ Last(chat_history).content # <<>>

(***************************************************************************)
(* C4.  With the completion client present, the text get_ai_response      *)
(* returns is translate_text(reply, detect_language(user_message)), where *)
(* reply is the first candidate's text, the 'empty response' message on   *)
(* zero candidates, or a fixed failure message on a raised error; the     *)
(* translate step is taken for each of them.                               *)
(***************************************************************************)
C4_Reply(outcome) ==
    CASE outcome.kind = "text"           -> outcome.text
      [] outcome.kind = "no_choices"     ->
             <<"The AI model returned an empty response. Please try rephrasing your question or try again later.">>
      [] outcome.kind = "stop_iteration" ->
             <<"The AI model did not generate a response. This might be a temporary issue with the service. Please try again.">>
      [] outcome.kind = "error"          ->
             <<"An error occurred while communicating with the AI. Please try again later.">>

C4_RespondIsTranslatedReply ==
    (SubmitCompleted /\ hf_client) =>
        \E c \in CallsOf("complete") :
            LET lang  == IF google_client
                         THEN detect_language_result(calls[1].outcome)
                         ELSE English
                reply == C4_Reply(calls[c].outcome)
                t     == translate_text_local(reply, lang, google_client)
            IN  /\ user_lang = lang
                /\ response_content = reply
                /\ IF t.remote
                   THEN /\ Len(calls) = c + 1
                        /\ calls[c + 1].api = "translate"
                        /\ calls[c + 1].prompt = t.text
                        /\ ai_response =
                               translate_text_result(reply, lang,
                                                     calls[c + 1].outcome)
                   ELSE /\ Len(calls) = c
                        /\ ai_response = t.text
                /\ Last(chat_history).content = ai_response

\* an error text of the completion step went through the translation call
C4_Witness ==
    /\ SubmitCompleted
    /\ hf_client
    /\ response_content = MsgApiError
    /\ CallsOf("translate") # {}
    /\ Last(calls).outcome.kind = "text"
    /\ ai_response = Last(calls).outcome.text
    /\ ai_response # <<>>

(***************************************************************************)
(* C5.  After a submit of non-empty trimmed text whose get_ai_response    *)
(* returned, the transcript is the transcript before the submit plus the  *)
(* user turn with the submitted text and the assistant turn with the      *)
(* returned text (2 turns longer), and is_processing is false.             *)
(***************************************************************************)
C5_State ==
    SubmitCompleted =>
        /\ Len(chat_history) = Len(current_history) + 2
        /\ SubSeq(chat_history, 1, Len(current_history)) = current_history
        /\ chat_history[Len(chat_history) - 1].type = "user"
        /\ chat_history[Len(chat_history) - 1].content = user_message
        /\ user_message # <<>>
        /\ Last(chat_history).type = "ai"
        /\ Last(chat_history).content = ai_response
        /\ is_processing = FALSE

\* the step that starts a submit records the transcript it found
C5_Start ==
    (pc = "idle" /\ last_log' \in {"added_user", "completed"}) =>
        current_history' = chat_history

C5_TwoTurnsAndIdle == []C5_State /\ [][C5_Start]_vars

\* a second exchange has been appended after a first one
C5_Witness ==
    /\ SubmitCompleted
    /\ Len(current_history) = 2
    /\ Len(chat_history) = 4
    /\ hf_client

(***************************************************************************)
(* C6.  A submit whose text is empty or whitespace-only leaves the        *)
(* transcript and is_processing unchanged, starts no remote call and      *)
(* does not leave Idle.                                                    *)
(***************************************************************************)
C6_EmptySubmitIgnored ==
    [][ (pc = "idle" /\ last_log' # "cleared" /\ WhitespaceOnly(user_input'))
        => /\ chat_history' = chat_history
           /\ is_processing' = is_processing
           /\ pc' = "idle"
           /\ calls' = <<>> ]_vars

\* a whitespace-only submit was ignored with an exchange in the transcript
C6_Witness ==
    /\ last_log = "no_message"
    /\ user_input = <<NL, SP>>
    /\ Len(chat_history) = 2
    /\ ~is_processing

(***************************************************************************)
(* C7.  When an exception escapes get_ai_response, the submit ends Idle   *)
(* with is_processing false, the user turn appended, no assistant turn    *)
(* appended, and the turns that were there before the submit unchanged.   *)
(***************************************************************************)
C7_State ==
    (last_log = "exception") =>
        /\ pc = "idle"
        /\ is_processing = FALSE
        /\ Len(chat_history) = Len(current_history) + 1
        /\ SubSeq(chat_history, 1, Len(current_history)) = current_history
        /\ Last(chat_history).type = "user"
        /\ Last(chat_history).content = user_message

C7_Step ==
    (pc # "idle" /\ last_log' = "exception") =>
        /\ chat_history' = chat_history
        /\ chat_history = updated_history

C7_ExceptionReturnsToIdle == []C7_State /\ [][C7_Step]_vars

\* the exception came while an earlier exchange was in the transcript
C7_Witness ==
    /\ last_log = "exception"
    /\ Len(current_history) = 2
    /\ Len(chat_history) = 3
    /\ current_history[2].type = "ai"

(***************************************************************************)
(* C8.  The clear action empties the transcript whatever it held, and     *)
(* leaves is_processing as it was.                                         *)
(***************************************************************************)
C8_ClearEmptiesTranscript ==
    [][ (last_log' = "cleared")
        => /\ chat_history' = <<>>
           /\ is_processing' = is_processing ]_vars

C8_Witness ==
    /\ last_log = "cleared"
    /\ chat_history = <<>>
    /\ ~is_processing

(***************************************************************************)
(* C9.  detect_language never raises: with the language client absent it  *)
(* returns 'English' and makes no remote call; when the remote detection  *)
(* call raises it returns 'English', and get_ai_response goes on to the   *)
(* completion call.                                                        *)
(***************************************************************************)
C9_DetectDefaultsToEnglish ==
    /\ (hf_client /\ ~google_client /\ user_message # <<>>) =>
           /\ user_lang = <<"E","n","g","l","i","s","h">>
           /\ CallsOf("detect") = {}
           /\ CallsOf("complete") # {}
    /\ \A i \in CallsOf("detect") :
           calls[i].outcome.kind = "error" =>
               /\ user_lang = <<"E","n","g","l","i","s","h">>
               /\ Len(calls) > i
               /\ calls[i + 1].api = "complete"

\* the remote detection call raised and the run completed
C9_Witness ==
    /\ SubmitCompleted
    /\ CallsOf("detect") # {}
    /\ calls[1].outcome.kind = "error"
    /\ user_lang = English

(***************************************************************************)
(* C10.  translate_text never raises: when the remote translation call    *)
(* raises, it returns the 'Translation to {target_language} failed'       *)
(* annotation followed by the original text, which so is a substring of   *)
(* the result, and the submit completes with it.                           *)
(***************************************************************************)
C10_TranslateFailureKeepsText ==
    \A i \in CallsOf("translate") :
        calls[i].outcome.kind = "error" =>
            /\ SubmitCompleted
            /\ ai_response =
                   <<"(Translation to ">> \o user_lang
                       \o <<" failed, showing original text) ">>
                       \o response_content
            /\ IsSubstring(response_content, ai_response)
            /\ Last(chat_history).content = ai_response

\* the translation of a model answer failed
C10_Witness ==
    /\ CallsOf("translate") # {}
    /\ Last(calls).outcome.kind = "error"
    /\ response_content = <<"R","e","s","t">>
    /\ Len(ai_response) > Len(response_content)


(***************************************************************************)
(* C11.  With both clients present, when the completion call succeeds     *)
(* with a candidate and the remote detection call raises,                 *)
(* get_ai_response returns the first candidate's text unmodified and      *)
(* makes no translation call.                                              *)
(***************************************************************************)
C11_DetectFailureKeepsAnswer ==
    (/\ SubmitCompleted /\ hf_client /\ google_client
     /\ Len(calls) >= 2
     /\ calls[1].api = "detect" /\ calls[1].outcome.kind = "error"
     /\ calls[2].api = "complete" /\ calls[2].outcome.kind = "text")
    => /\ ai_response = calls[2].outcome.text
       /\ Last(chat_history).content = calls[2].outcome.text
       /\ CallsOf("translate") = {}
       /\ Len(calls) = 2

\* detection raised and the model's answer is the assistant turn
C11_Witness ==
    /\ SubmitCompleted /\ hf_client /\ google_client
    /\ Len(calls) = 2
    /\ calls[1].outcome.kind = "error"
    /\ calls[2].outcome = Text(<<"R","e","s","t">>)
    /\ Last(chat_history).content = <<"R","e","s","t">>

(***************************************************************************)
(* C12.  The completion step never raises and maps its outcomes to        *)
(* distinct results: a candidate gives the first candidate's text         *)
(* verbatim, zero candidates give the 'empty response' message, a raised  *)
(* error gives a fixed failure message other than the 'empty response'    *)
(* message; in each case the run goes on to translate_text.                *)
(***************************************************************************)
C12_EmptyResponse ==
    <<"The AI model returned an empty response. Please try rephrasing your question or try again later.">>

C12_Failures ==
    { <<"The AI model did not generate a response. This might be a temporary issue with the service. Please try again.">>,
      <<"An error occurred while communicating with the AI. Please try again later.">> }

C12_CompletionOutcomesDistinct ==
    \A c \in CallsOf("complete") :
        LET o == calls[c].outcome
        IN  o.kind # "pending" =>
              /\ o.kind = "text" => response_content = o.text
              /\ o.kind = "no_choices" => response_content = C12_EmptyResponse
              /\ o.kind \in {"error", "stop_iteration"} =>
                     /\ response_content \in C12_Failures
                     /\ response_content # C12_EmptyResponse
              /\ \/ SubmitCompleted
                 \/ pc = "translate"
                 \/ last_log = "exception" /\ Last(calls).outcome.kind = "pending"

\* the completion call returned zero candidates and the run completed
C12_Witness ==
    /\ SubmitCompleted
    /\ \E c \in CallsOf("complete") : calls[c].outcome.kind = "no_choices"
    /\ response_content = MsgEmptyResponse


(***************************************************************************)
(* C13.  The assistant turn does not depend on which error a remote call  *)
(* raised: whenever a detection, completion or translation call of the    *)
(* run has raised, any other error raised in its place gives the same     *)
(* detected language, the same response content and the same assistant    *)
(* turn; and no turn of the transcript contains the text of a provider    *)
(* error.                                                                  *)
(***************************************************************************)
C13_NoErrorText ==
    \A k \in 1..Len(chat_history) : \A e \in ProviderErrors :
        \A i \in 1..Len(chat_history[k].content) :
            chat_history[k].content[i] # e

C13_SameForAnyError ==
    \A i \in 1..Len(calls) :
        calls[i].outcome.kind = "error" =>
            \A e \in ProviderErrors :
                /\ calls[i].api = "detect" =>
                       user_lang = detect_language_result(Raised(e))
                /\ calls[i].api = "complete" =>
                       response_content = completion_result(Raised(e))
                /\ calls[i].api = "translate" =>
                       /\ ai_response =
                              translate_text_result(response_content,
                                                    user_lang, Raised(e))
                       /\ Last(chat_history).content = ai_response

C14_FlagIffRunInFlight ==
    /\ is_processing <=> (pc # "idle")
    /\ is_processing <=> (last_log = "added_user")
    /\ is_processing =>
           /\ chat_history = updated_history
           /\ Last(chat_history).type = "user"
           /\ Last(chat_history).content = user_message
           /\ ai_response = <<>>

\* the flag is up while the translation call of a second submit is awaited
C14_Witness ==
    /\ is_processing
    /\ pc = "translate"
    /\ Len(chat_history) = 3

(***************************************************************************)
(* C15 as claimed.  In every completed submit each of the three remote    *)
(* calls was attempted exactly once (taken where both clients are         *)
(* present, so that every call can be made).                               *)
(***************************************************************************)
C15_ExactlyOnce ==
    (SubmitCompleted /\ hf_client /\ google_client) =>
        \A api \in {"detect", "complete", "translate"} :
            Cardinality(CallsOf(api)) = 1

(***************************************************************************)
(* C15 as amended.  In every run each of the three remote calls is        *)
(* attempted at most once, so none is repeated after a failure; a         *)
(* completed submit has made each exactly once when both clients are      *)
(* present and the detected language is not 'english' up to case.         *)
(***************************************************************************)
C15_Count(api) == Cardinality(CallsOf(api))

C15_AtMostOnceNoRetry ==
    /\ \A api \in {"detect", "complete", "translate"} : C15_Count(api) <= 1
    /\ \A i \in 1..Len(calls) : calls[i].api \in {"detect", "complete", "translate"}
    /\ (/\ SubmitCompleted /\ hf_client /\ google_client
        /\ Lower(user_lang) # <<"e","n","g","l","i","s","h">>) =>
           \A api \in {"detect", "complete", "translate"} : C15_Count(api) = 1

\* all three calls were made once, two of them failed, and the run completed
C15_Witness ==
    /\ SubmitCompleted
    /\ Len(calls) = 3
    /\ calls[2].outcome.kind = "error"
    /\ calls[3].outcome.kind = "error"
    /\ calls[3].api = "translate"

(***************************************************************************)
(* C16.  The remote calls of a run are strictly ordered: detection, then  *)
(* completion, then translation; a call is started only when every        *)
(* earlier call of the run has resolved, so at most one is in flight.      *)
(***************************************************************************)
C16_Rank(api) ==
    CASE api = "detect" -> 1 [] api = "complete" -> 2 [] api = "translate" -> 3

C16_StrictlySequential ==
    /\ \A i \in 1..Len(calls) : \A j \in 1..Len(calls) :
           i < j => /\ C16_Rank(calls[i].api) < C16_Rank(calls[j].api)
                    /\ calls[i].outcome.kind # "pending"
    /\ Cardinality({i \in 1..Len(calls) : calls[i].outcome.kind = "pending"}) <= 1
    /\ pc # "idle" => /\ Len(calls) >= 1
                      /\ Last(calls).api = pc
                      /\ Last(calls).outcome.kind = "pending"

\* the translation call is in flight after the two others resolved
C16_Witness ==
    /\ pc = "translate"
    /\ Len(calls) = 3
    /\ calls[1].outcome.kind # "pending"
    /\ calls[2].outcome.kind # "pending"
    /\ calls[3].outcome.kind = "pending"


(***************************************************************************)
(* C17.  Provided every awaited remote call returns or raises, every      *)
(* submit that enters Busy leads back to Idle, by the normal return or    *)
(* by the exception path: is_processing does not stay true.                *)
(***************************************************************************)
C17_BusyLeadsToIdle ==
    (is_processing \/ pc # "idle") ~> (~is_processing /\ pc = "idle")

\* Idle again after a run that went through all three calls
C17_Witness ==
    /\ ~is_processing
    /\ pc = "idle"
    /\ last_log = "completed"
    /\ Len(calls) = 3


(***************************************************************************)
(* C18.  The transcript is append-only apart from clear: every step other *)
(* than the clear action keeps the turns already in the transcript, with  *)
(* type, content and timestamp, as a prefix of the new transcript.         *)
(***************************************************************************)
C18_AppendOnly ==
    [][ (last_log' # "cleared")
        => /\ Len(chat_history') >= Len(chat_history)
           /\ SubSeq(chat_history', 1, Len(chat_history)) = chat_history ]_vars

\* two exchanges with different timestamps are in the transcript
C18_Witness ==
    /\ SubmitCompleted
    /\ Len(chat_history) = 4
    /\ chat_history[1].timestamp # chat_history[2].timestamp
    /\ chat_history[2].type = "ai"
    /\ chat_history[3].type = "user"

(***************************************************************************)
(* C19.  At most one run is in flight: while a submit is Busy, no second  *)
(* submit and no clear is processed; the only steps are those of the      *)
(* running submit, up to its assistant turn or its exception return.       *)
(***************************************************************************)
C19_NoHandlerWhileBusy ==
    [][ (pc # "idle")
        => /\ last_log' \notin {"cleared", "no_message"}
           /\ user_message' = user_message
           /\ user_input' = user_input
           /\ current_history' = current_history
           /\ updated_history' = updated_history
           /\ \/ chat_history' = chat_history
              \/ /\ pc' = "idle"
                 /\ last_log' = "completed"
                 /\ Len(chat_history') = Len(updated_history) + 1
                 /\ Last(chat_history').type = "ai" ]_vars

\* a second submit is Busy with the first exchange in the transcript
C19_Witness ==
    /\ pc = "complete"
    /\ is_processing
    /\ Len(current_history) = 2
    /\ Len(chat_history) = 3

C21_Start ==
    /\ pc = "idle"
    /\ is_processing = FALSE
    /\ chat_history = <<>>

C21_Absent ==
    /\ ~HF_TOKEN => hf_client = FALSE
    /\ ~GOOGLE_API_KEY => google_client = FALSE

C21_Permanent ==
    /\ hf_client' = hf_client
    /\ google_client' = google_client

C21_MissingCredentialsPermanent ==
    C21_Start /\ []C21_Absent /\ [][C21_Permanent]_vars

\* the transcript was cleared in a session started without either credential
C21_Witness ==
    /\ ~HF_TOKEN
    /\ ~GOOGLE_API_KEY
    /\ ~hf_client
    /\ ~google_client
    /\ last_log = "cleared"


(***************************************************************************)
(* C22.  The assistant turn is appended to the snapshot taken at submit   *)
(* time: when get_ai_response returns, the transcript is set to the       *)
(* transcript read at submit plus the user turn plus the assistant turn,  *)
(* whatever the transcript holds by then, so that a clear that landed in  *)
(* between is overwritten.                                                 *)
(***************************************************************************)
C22_Returns == pc # "idle" /\ pc' = "idle" /\ last_log' = "completed"

C22_AppendsToSnapshot ==
    [][ C22_Returns =>
          /\ Len(chat_history') = Len(current_history) + 2
          /\ SubSeq(chat_history', 1, Len(current_history)) = current_history
          /\ SubSeq(chat_history', 1, Len(updated_history)) = updated_history
          /\ updated_history[Len(updated_history)].type = "user"
          /\ Last(chat_history').type = "ai"
          /\ Last(chat_history').content = ai_response' ]_vars

\* a clear has landed while the translation call of a second submit is awaited
C22_Witness ==
    /\ pc = "translate"
    /\ chat_history = <<>>
    /\ Len(updated_history) = 3
    /\ last_log = "cleared"


(***************************************************************************)
(* C23.  In every reachable state every assistant turn of the transcript  *)
(* directly follows a user turn and a non-empty transcript starts with a  *)
(* user turn; a transcript that ends in a user turn while idle, the only  *)
(* place a second user turn in a row can be appended to, is left behind   *)
(* only by the exception path of handle_send_message.                      *)
(***************************************************************************)
C23_Alternates ==
    /\ chat_history # <<>> => chat_history[1].type = "user"
    /\ \A k \in 1..Len(chat_history) :
          chat_history[k].type = "ai" =>
              k > 1 /\ chat_history[k - 1].type = "user"

C23_EndsInUserTurn(h) == h # <<>> /\ Last(h).type = "user"

C23_OnlyException ==
    /\ (/\ pc' = "idle"
        /\ C23_EndsInUserTurn(chat_history')
        /\ ~(pc = "idle" /\ chat_history' = chat_history))
          => last_log' = "exception"
    /\ (/\ C23_EndsInUserTurn(chat_history)
        /\ Len(chat_history') = Len(chat_history) + 1
        /\ Last(chat_history').type = "user")
          => pc = "idle" /\ last_log \in {"exception", "no_message"}

C23_TurnsAlternate == []C23_Alternates /\ [][C23_OnlyException]_vars

\* a question left unanswered by the exception path, followed by an answered one
C23_Witness ==
    /\ SubmitCompleted
    /\ Len(chat_history) = 3
    /\ chat_history[1].type = "user"
    /\ chat_history[2].type = "user"
    /\ chat_history[3].type = "ai"

(***************************************************************************)
(* C24.  Every user turn of the transcript has non-empty content, which   *)
(* is a submitted text without its leading and trailing whitespace; the   *)
(* user turn of a run holds the trimmed text of the text area, and the    *)
(* prompts of the detection and the completion call of that run are built *)
(* from that same trimmed text.                                            *)
(***************************************************************************)
C24_IsTrimOf(t, raw) ==
    /\ t # <<>>
    /\ t[1] \notin Whitespace
    /\ Last(t) \notin Whitespace
    /\ \E i \in 1..Len(raw) :
          /\ i + Len(t) - 1 <= Len(raw)
          /\ SubSeq(raw, i, i + Len(t) - 1) = t
          /\ \A j \in 1..Len(raw) :
                (j < i \/ j > i + Len(t) - 1) => raw[j] \in Whitespace

\* the texts that are some submitted text without its surrounding whitespace
C24_TrimmedInputs ==
    { t \in UNION { { SubSeq(raw, i, j) : i, j \in 1..Len(raw) } :
                      raw \in UserInputs } :
          \E raw \in UserInputs : C24_IsTrimOf(t, raw) }

C24_UserTurnIsTrimmedInput ==
    /\ \A k \in 1..Len(chat_history) :
          chat_history[k].type = "user" =>
              chat_history[k].content \in C24_TrimmedInputs
    /\ updated_history # <<>> =>
          /\ C24_IsTrimOf(user_message, user_input)
          /\ Last(updated_history) =
                Turn("user", user_message, Last(updated_history).timestamp)
          /\ \A i \in CallsOf("detect") :
                calls[i].prompt = DetectPrompt(user_message)
          /\ \A i \in CallsOf("complete") :
                calls[i].prompt = CompletionPrompt(user_message)

\* " hi\n" was submitted, recorded as "hi" and answered from "hi"
C24_Witness ==
    /\ SubmitCompleted
    /\ user_input = <<SP, "h", "i", NL>>
    /\ chat_history[Len(chat_history) - 1].content = <<"h", "i">>
    /\ CallsOf("detect") # {}
    /\ CallsOf("complete") # {}

(***************************************************************************)
(* C25.  In a run each remote call is made at most once.  The detection   *)
(* call is made if and only if both clients are present; in a completed   *)
(* submit the translation call was made if and only if the completion     *)
(* client is present, the language client is present and the detected     *)
(* language, lower-cased, is not 'english'.                                *)
(***************************************************************************)
C25_Made(api) == CallsOf(api) # {}

C25_RunStarted == pc # "idle" \/ SubmitCompleted

C25_CallsIffNeeded ==
    /\ \A i, j \in 1..Len(calls) : calls[i].api = calls[j].api => i = j
    /\ C25_RunStarted =>
          (C25_Made("detect") <=> (hf_client /\ google_client))
    /\ SubmitCompleted =>
          (C25_Made("translate") <=>
              (hf_client /\ google_client /\ Lower(user_lang) # english))
    /\ pc # "idle" => (C25_Made("translate") <=> pc = "translate")

\* a completed submit whose detected language is 'english' in another case,
\* so that no translation call was made although both clients are present
C25_Witness ==
    /\ SubmitCompleted
    /\ hf_client /\ google_client
    /\ user_lang # <<>>
    /\ user_lang # english
    /\ Lower(user_lang) = english
    /\ ~C25_Made("translate")
    /\ C25_Made("detect")

====
